---- MODULE Spec2Model ----
(***************************************************************************)
(* Model of the Streletz protocol decoder (streletz/pd.py): the frame      *)
(* assembler Decoder.handle_byte together with reset, start, putg and      *)
(* decode.  The decoder object's fields are the variables; the annotation  *)
(* sink is modelled by the list of put() calls made by the last handler    *)
(* call; history variables record what was fed and emitted.                *)
(***************************************************************************)
EXTENDS Integers, Sequences, FiniteSets, TLC

VARIABLES
    checksum,      \* self.checksum
    accum_bytes,   \* self.accum_bytes, deque(maxlen=PACKETSIZE_MAX)
    rxtx,          \* self.rxtx
    packet_size,   \* self.packet_size
    packet_ss,     \* self.packet_ss
    packet_es,     \* self.packet_es
    data_ss,       \* self.data_ss
    buf_pos,       \* self.buf_pos
    header,        \* self.header
    print_sec,     \* self.print_sec
    out_ann,       \* self.out_ann
    puts,          \* the self.put() calls made by the last call, in order
    raised,        \* TRUE once a call has raised a TypeError (None compared)
    now,           \* sample number at which the next upstream event starts
    op,            \* history: the last operation called
    inp,           \* history: the last event given to decode
    before,        \* history: the object and op as they were before the last call
    fed,           \* history: byte events of the current candidate run
    emitted,       \* history: put() calls made during the current run
    quiet          \* history: "init" / "warned" until a header byte arrives

decoder == <<checksum, accum_bytes, rxtx, packet_size, packet_ss, packet_es,
             data_ss, buf_pos, header, print_sec, out_ann>>
history == <<op, inp, before, fed, emitted, quiet>>
vars == <<decoder, puts, raised, now, history>>

----------------------------------------------------------------------------
(* Program constants *)

None == -1

RX == 0
TX == 1

PACKETSIZE_MAX == 64
PACKETSIZE_MIN == 4

BufPos_HEADER == 1
BufPos_DATA_SIZE == 2
BufPos_DATA_TYPE == 3
BufPos_DATA_START == 4

Ann_HEADER == 0
Ann_DATASIZE == 1
Ann_CHECKSUM == 2
Ann_ANSWER == 3
Ann_COMMAND == 4
Ann_DATA_RX == 5
Ann_DATA_TX == 6
Ann_PACKET_RX == 7
Ann_PACKET_TX == 8
Ann_WARN == 9

header_tx_default == 217
header_rx_default == 157
print_sec_default == 0

----------------------------------------------------------------------------
(* Bounds and input sets *)

\* number of upstream events fed under Spec
MaxEvents == 7
\* under SpecLong a frame may begin only among the first MaxLongStart events
MaxLongStart == 2

\* under Spec: both default headers, sizes 0, 1 and 2, the smallest oversize 61
Bytes == {0, 1, 2, 61, 157, 217}
\* under SpecLong: size bytes, type bytes; payload byte i of a frame is i
LongSizes == {0, 1, 59, 60, 61}
LongTypes == {1}
Directions == {RX, TX}
PTypes == {"DATA", "STARTBIT"}
HeaderRxOptions == {header_rx_default}
HeaderTxOptions == {header_tx_default}
PrintSecOptions == {print_sec_default, 1}

----------------------------------------------------------------------------
(* Pure helpers *)

Min(a, b) == IF a < b THEN a ELSE b

RECURSIVE XorBits(_, _, _)
XorBits(a, b, n) ==
    IF n = 0 THEN 0
    ELSE (((a % 2) + (b % 2)) % 2) + 2 * XorBits(a \div 2, b \div 2, n - 1)

\* line 146 and line 156 with an additive checksum in place of ^
Xor_AsSum(a, b) == (a + b) % 256

\* Python's ^ on two values below 256
Xor(a, b) == XorBits(a, b, 8)

\* bit j of the XOR of all bytes of s: the parity of the bytes that have it set
BitParity(s, j) == Cardinality({i \in 1..Len(s) : (s[i] \div (2 ^ j)) % 2 = 1}) % 2

\* the XOR of all bytes of s, computed bit by bit
XorSeq(s) ==
    BitParity(s, 0) + 2 * BitParity(s, 1) + 4 * BitParity(s, 2) + 8 * BitParity(s, 3)
    + 16 * BitParity(s, 4) + 32 * BitParity(s, 5) + 64 * BitParity(s, 6)
    + 128 * BitParity(s, 7)

HexDigits == <<"0", "1", "2", "3", "4", "5", "6", "7",
               "8", "9", "A", "B", "C", "D", "E", "F">>

\* '{:02X}'.format(byte), as a sequence of characters (byte < 256)
byte_to_hex(byte) == <<HexDigits[(byte \div 16) + 1], HexDigits[(byte % 16) + 1]>>

\* ' '.join('{:02X}'.format(byte) for byte in data): characters 3k-2 and 3k-1
\* are the two digits of byte k, every third character is the separator
bytes_to_hex(data) ==
    IF Len(data) = 0 THEN <<>>
    ELSE [i \in 1..(3 * Len(data) - 1) |->
             IF i % 3 = 0 THEN " " ELSE byte_to_hex(data[(i + 2) \div 3])[i % 3]]

Digit(n) == HexDigits[n + 1]

RECURSIVE Decimal(_)
Decimal(n) == IF n < 10 THEN <<Digit(n)>> ELSE Decimal(n \div 10) \o <<Digit(n % 10)>>

RECURSIVE PadLeft(_, _)
PadLeft(s, width) == IF Len(s) >= width THEN s ELSE PadLeft(<<" ">> \o s, width)

\* "{:8.3f} ".format(mks * 1e-6): seconds rounded to thousandths, width 8
\* (an exact half is rounded up here; Python rounds the float it holds)
time_sec_str(mks) ==
    LET th == (mks + 500) \div 1000
        frac == th % 1000
    IN  PadLeft(Decimal(th \div 1000) \o <<".">>
                \o <<Digit(frac \div 100), Digit((frac \div 10) % 10), Digit(frac % 10)>>, 8)
        \o <<" ">>

\* deque.append on a deque with maxlen: a full deque drops its oldest item
DequeAppend(q, byte) ==
    IF Len(q) >= PACKETSIZE_MAX THEN Tail(q) \o <<byte>> ELSE Append(q, byte)

\* islice(seq, start, stop), 0-based, stop excluded
ISlice(seq, start, stop) == SubSeq(seq, start + 1, Min(stop, Len(seq)))

----------------------------------------------------------------------------
(* The decoder object as a record, for the sequential code of the methods *)

Self ==
    [checksum |-> checksum, accum_bytes |-> accum_bytes, rxtx |-> rxtx,
     packet_size |-> packet_size, packet_ss |-> packet_ss, packet_es |-> packet_es,
     data_ss |-> data_ss, buf_pos |-> buf_pos, header |-> header,
     print_sec |-> print_sec, out_ann |-> out_ann]

\* reset() that forgets to unset packet_size
reset_KeepsSize(s) ==
    [s EXCEPT !.checksum = 0, !.accum_bytes = <<>>, !.rxtx = 0,
              !.packet_ss = None, !.packet_es = None,
              !.data_ss = None, !.buf_pos = 0]

\* reset() that forgets to unset data_ss
reset_KeepsDataStart(s) ==
    [s EXCEPT !.checksum = 0, !.accum_bytes = <<>>, !.rxtx = 0,
              !.packet_size = None, !.packet_ss = None, !.packet_es = None,
              !.buf_pos = 0]

\* Decoder.reset
reset(s) ==
    [s EXCEPT !.checksum = 0, !.accum_bytes = <<>>, !.rxtx = 0,
              !.packet_size = None, !.packet_ss = None, !.packet_es = None,
              !.data_ss = None, !.buf_pos = 0]

\* Decoder.putg: the put() call it makes; data = [ann, labels]
putg(s, ss, es, ann, labels) ==
    [ss |-> ss, es |-> es, out |-> s.out_ann, ann |-> ann,
     labels |-> IF s.print_sec # 0
                THEN [labels EXCEPT ![1] = time_sec_str(ss) \o @]
                ELSE labels]

rxtx_str(d) == IF d = TX THEN "TX" ELSE "RX"

\* result of a (partial) run of handle_byte: the object, the put() calls, raised
Res(s, out, exc) == [self |-> s, puts |-> out, raised |-> exc]

\* lines 141-147 with the position alone cleared on a direction change
Accumulate_ClearsPositionOnly(s, byte, d) ==
    IF s.buf_pos > 0
    THEN IF s.rxtx = d
         THEN [s EXCEPT !.buf_pos = @ + 1,
                        !.accum_bytes = DequeAppend(@, byte),
                        !.checksum = Xor(@, byte)]
         ELSE [s EXCEPT !.buf_pos = 0]
    ELSE s

\* handle_byte, lines 141-147: accumulate the byte or drop the candidate
Accumulate(s, byte, d) ==
    IF s.buf_pos > 0
    THEN IF s.rxtx = d
         THEN [s EXCEPT !.buf_pos = @ + 1,
                        !.accum_bytes = DequeAppend(@, byte),
                        !.checksum = Xor(@, byte)]
         ELSE reset(s)
    ELSE s

\* line 151 comparing with the headers of both directions
HeaderMatch_AnyDirection(s, byte, d) == byte \in {s.header[RX + 1], s.header[TX + 1]}

\* the test of line 151
HeaderMatch(s, byte, d) == byte = s.header[d + 1]

\* lines 150-158 without line 156: the header is left out of the checksum
WaitHeader_ForgetsChecksum(s, ss, es, byte, d) ==
    IF HeaderMatch(s, byte, d)
    THEN Res([s EXCEPT !.buf_pos = BufPos_HEADER,
                       !.rxtx = d,
                       !.accum_bytes = DequeAppend(@, byte),
                       !.packet_ss = ss],
             <<putg(s, ss, es, Ann_HEADER,
                    <<(<<"HEAD: 0x">> \o byte_to_hex(byte)), <<"HEAD">>, <<"H">>>>)>>,
             FALSE)
    ELSE Res(s, <<>>, FALSE)

\* lines 150-158 without line 154: the header is left out of the buffer
WaitHeader_ForgetsAppend(s, ss, es, byte, d) ==
    IF HeaderMatch(s, byte, d)
    THEN Res([s EXCEPT !.buf_pos = BufPos_HEADER,
                       !.rxtx = d,
                       !.packet_ss = ss,
                       !.checksum = byte],
             <<putg(s, ss, es, Ann_HEADER,
                    <<(<<"HEAD: 0x">> \o byte_to_hex(byte)), <<"HEAD">>, <<"H">>>>)>>,
             FALSE)
    ELSE Res(s, <<>>, FALSE)

\* handle_byte, lines 150-158: wait header
WaitHeader(s, ss, es, byte, d) ==
    IF HeaderMatch(s, byte, d)
    THEN Res([s EXCEPT !.buf_pos = BufPos_HEADER,
                       !.rxtx = d,
                       !.accum_bytes = DequeAppend(@, byte),
                       !.packet_ss = ss,
                       !.checksum = byte],
             <<putg(s, ss, es, Ann_HEADER,
                    <<(<<"HEAD: 0x">> \o byte_to_hex(byte)), <<"HEAD">>, <<"H">>>>)>>,
             FALSE)
    ELSE Res(s, <<>>, FALSE)

\* line 164 off by one: a declared size of 65 passes
SizeTooBig_OffByOne(s) == s.packet_size > PACKETSIZE_MAX + 1

\* the test of line 164
SizeTooBig(s) == s.packet_size > PACKETSIZE_MAX

\* line 183 with >= for >: an empty payload counts as a data block
EndOfData_EmptyToo(s) == s.packet_size >= PACKETSIZE_MIN /\ s.buf_pos = s.packet_size - 1

\* the test of line 183
EndOfData(s) == s.packet_size > PACKETSIZE_MIN /\ s.buf_pos = s.packet_size - 1

\* line 192 one position early
EndOfPacket_Early(s) == s.buf_pos = s.packet_size - 1

\* the test of line 192
EndOfPacket(s) == s.buf_pos = s.packet_size

\* line 196 inverted
ChecksumOk_Inverted(s) == s.checksum # 0

\* the test of line 196
ChecksumOk(s) == s.checksum = 0

\* the put() of lines 185-190 with the slice of line 186 starting one late
DataAnn_SliceFromFourth(s, es, d) ==
    putg(s, s.data_ss, es, IF d = TX THEN Ann_DATA_TX ELSE Ann_DATA_RX,
         <<(<<rxtx_str(d), " DATA: ">>
              \o bytes_to_hex(ISlice(s.accum_bytes, BufPos_DATA_START, s.packet_size - 1))),
           <<rxtx_str(d), "DATA">>, <<rxtx_str(d), "D">>, <<"D">>>>)

\* the put() of lines 185-190
DataAnn(s, es, d) ==
    putg(s, s.data_ss, es, IF d = TX THEN Ann_DATA_TX ELSE Ann_DATA_RX,
         <<(<<rxtx_str(d), " DATA: ">>
              \o bytes_to_hex(ISlice(s.accum_bytes, BufPos_DATA_START - 1, s.packet_size - 1))),
           <<rxtx_str(d), "DATA">>, <<rxtx_str(d), "D">>, <<"D">>>>)

\* the put() of lines 198-204
PacketAnn(s, d) ==
    putg(s, s.packet_ss, s.packet_es,
         IF d = TX THEN Ann_PACKET_TX ELSE Ann_PACKET_RX,
         <<(<<rxtx_str(d), " PACKET: ">> \o bytes_to_hex(s.accum_bytes)),
           <<rxtx_str(d), " PACKET">>, <<rxtx_str(d), "P">>>>)

\* lines 183-206 with the Packet put() ahead of the Checksum put()
Finish_PacketFirst(s, out, ss, es, byte, d) ==
    IF s.packet_size = None
    THEN Res(s, out, TRUE)
    ELSE IF EndOfData(s)
    THEN IF s.data_ss = None
         THEN Res(s, out, TRUE)
         ELSE Res(s, Append(out, DataAnn(s, es, d)), FALSE)
    ELSE IF EndOfPacket(s)
    THEN LET cs == putg(s, ss, es, Ann_CHECKSUM,
                        <<(<<"CS: 0x">> \o byte_to_hex(byte)), <<"CS">>>>)
             s1 == [s EXCEPT !.packet_es = es]
         IN  IF ChecksumOk(s1)
             THEN IF s1.packet_ss = None
                  THEN Res(s1, out, TRUE)
                  ELSE Res(reset(s1), Append(out, PacketAnn(s1, d)) \o <<cs>>, FALSE)
             ELSE Res(reset(s1), Append(out, cs), FALSE)
    ELSE Res(s, out, FALSE)

\* lines 183-206 with a Warning put() when the test of line 196 fails
Finish_WarnsOnBadChecksum(s, out, ss, es, byte, d) ==
    IF s.packet_size = None
    THEN Res(s, out, TRUE)
    ELSE IF EndOfData(s)
    THEN IF s.data_ss = None
         THEN Res(s, out, TRUE)
         ELSE Res(s, Append(out, DataAnn(s, es, d)), FALSE)
    ELSE IF EndOfPacket(s)
    THEN LET cs == putg(s, ss, es, Ann_CHECKSUM,
                        <<(<<"CS: 0x">> \o byte_to_hex(byte)), <<"CS">>>>)
             s1 == [s EXCEPT !.packet_es = es]
         IN  IF ChecksumOk(s1)
             THEN IF s1.packet_ss = None
                  THEN Res(s1, Append(out, cs), TRUE)
                  ELSE Res(reset(s1), Append(out, cs) \o <<PacketAnn(s1, d)>>, FALSE)
             ELSE Res(reset(s1),
                      Append(out, cs)
                        \o <<putg(s1, ss, es, Ann_WARN,
                                  <<(<<"Wrong CS: 0x">> \o byte_to_hex(byte)), <<"WCS">>>>)>>,
                      FALSE)
    ELSE Res(s, out, FALSE)

\* lines 183-206 with the reset of line 205 inside the if of line 196
Finish_ResetOnlyIfOk(s, out, ss, es, byte, d) ==
    IF s.packet_size = None
    THEN Res(s, out, TRUE)
    ELSE IF EndOfData(s)
    THEN IF s.data_ss = None
         THEN Res(s, out, TRUE)
         ELSE Res(s, Append(out, DataAnn(s, es, d)), FALSE)
    ELSE IF EndOfPacket(s)
    THEN LET cs == putg(s, ss, es, Ann_CHECKSUM,
                        <<(<<"CS: 0x">> \o byte_to_hex(byte)), <<"CS">>>>)
             s1 == [s EXCEPT !.packet_es = es]
         IN  IF ChecksumOk(s1)
             THEN IF s1.packet_ss = None
                  THEN Res(s1, Append(out, cs), TRUE)
                  ELSE Res(reset(s1), Append(out, cs) \o <<PacketAnn(s1, d)>>, FALSE)
             ELSE Res(s1, Append(out, cs), FALSE)
    ELSE Res(s, out, FALSE)

\* handle_byte, lines 183-206: end of data block, or checksum byte.  Comparing
\* a packet_size of None (line 183) raises TypeError, and so does an annotation
\* whose start sample is None (None * 1e-6 in time_sec_str, or put(None, ...)).
Finish(s, out, ss, es, byte, d) ==
    IF s.packet_size = None
    THEN Res(s, out, TRUE)
    ELSE IF EndOfData(s)
    THEN IF s.data_ss = None
         THEN Res(s, out, TRUE)
         ELSE Res(s, Append(out, DataAnn(s, es, d)), FALSE)
    ELSE IF EndOfPacket(s)
    THEN LET cs == putg(s, ss, es, Ann_CHECKSUM,
                        <<(<<"CS: 0x">> \o byte_to_hex(byte)), <<"CS">>>>)
             s1 == [s EXCEPT !.packet_es = es]
         IN  IF ChecksumOk(s1)
             THEN IF s1.packet_ss = None
                  THEN Res(s1, Append(out, cs), TRUE)
                  ELSE Res(reset(s1), Append(out, cs) \o <<PacketAnn(s1, d)>>, FALSE)
             ELSE Res(reset(s1), Append(out, cs), FALSE)
    ELSE Res(s, out, FALSE)

\* handle_byte, lines 160-206: the byte is part of the candidate
Body(s, ss, es, byte, d) ==
    IF s.buf_pos = BufPos_DATA_SIZE
    THEN LET s1 == [s EXCEPT !.packet_size = PACKETSIZE_MIN + byte]
         IN  IF SizeTooBig(s1)
             THEN Res(reset(s1),
                      <<putg(s1, ss, es, Ann_WARN,
                             <<(<<"Wrong DS: 0x">> \o byte_to_hex(byte)), <<"WDS">>>>)>>,
                      FALSE)
             ELSE Finish(s1,
                         <<putg(s1, ss, es, Ann_DATASIZE,
                                <<(<<"DS: 0x">> \o byte_to_hex(byte)), <<"DS">>>>)>>,
                         ss, es, byte, d)
    ELSE IF s.buf_pos = BufPos_DATA_TYPE
    THEN Finish(s,
                IF d = TX
                THEN <<putg(s, ss, es, Ann_COMMAND,
                            <<(<<"CMD: 0x">> \o byte_to_hex(byte)), <<"CMD">>>>)>>
                ELSE <<putg(s, ss, es, Ann_ANSWER,
                            <<(<<"ANS: 0x">> \o byte_to_hex(byte)), <<"ANS">>>>)>>,
                ss, es, byte, d)
    ELSE IF s.buf_pos = BufPos_DATA_START
    THEN Finish([s EXCEPT !.data_ss = ss], <<>>, ss, es, byte, d)
    ELSE Finish(s, <<>>, ss, es, byte, d)

\* handle_byte returning right after the reset of line 147
handle_byte_ReturnsAfterReset(s, ss, es, byte, d) ==
    LET s1 == Accumulate(s, byte, d)
    IN  IF s.buf_pos > 0 /\ s.rxtx # d
        THEN Res(s1, <<>>, FALSE)
        ELSE IF s1.buf_pos < BufPos_HEADER
        THEN WaitHeader(s1, ss, es, byte, d)
        ELSE Body(s1, ss, es, byte, d)

\* handle_byte running the header search of lines 150-158 once more on a byte
\* that has just ended a candidate
handle_byte_HeaderAfterEnd(s, ss, es, byte, d) ==
    LET s1 == Accumulate(s, byte, d)
    IN  IF s1.buf_pos < BufPos_HEADER
        THEN WaitHeader(s1, ss, es, byte, d)
        ELSE LET r == Body(s1, ss, es, byte, d)
             IN  IF r.raised \/ r.self.buf_pos >= BufPos_HEADER
                 THEN r
                 ELSE LET w == WaitHeader(r.self, ss, es, byte, d)
                      IN  Res(w.self, r.puts \o w.puts, FALSE)

\* Decoder.handle_byte
handle_byte(s, ss, es, byte, d) ==
    LET s1 == Accumulate(s, byte, d)
    IN  IF s1.buf_pos < BufPos_HEADER
        THEN WaitHeader(s1, ss, es, byte, d)
        ELSE Body(s1, ss, es, byte, d)

----------------------------------------------------------------------------
(* State machine *)

\* assignment of the object's fields from a record
SetSelf(s) ==
    /\ checksum' = s.checksum
    /\ accum_bytes' = s.accum_bytes
    /\ rxtx' = s.rxtx
    /\ packet_size' = s.packet_size
    /\ packet_ss' = s.packet_ss
    /\ packet_es' = s.packet_es
    /\ data_ss' = s.data_ss
    /\ buf_pos' = s.buf_pos
    /\ header' = s.header
    /\ print_sec' = s.print_sec
    /\ out_ann' = s.out_ann

NoEvent == [ptype |-> "", ss |-> None, es |-> None, byte |-> None, rxtx |-> None]

\* the object as Decoder.__init__ leaves it
InitSelf ==
    [checksum |-> 0, accum_bytes |-> <<>>, rxtx |-> 0, packet_size |-> None,
     packet_ss |-> None, packet_es |-> None, data_ss |-> None, buf_pos |-> 0,
     header |-> <<None, None>>, print_sec |-> 0, out_ann |-> None]

\* Decoder.__init__
Init ==
    /\ out_ann = None
    /\ checksum = 0
    /\ accum_bytes = <<>>
    /\ rxtx = 0
    /\ packet_size = None
    /\ packet_ss = None
    /\ packet_es = None
    /\ data_ss = None
    /\ buf_pos = 0
    /\ header = <<None, None>>
    /\ print_sec = 0
    /\ puts = <<>>
    /\ raised = FALSE
    /\ now = 0
    /\ op = "init"
    /\ inp = NoEvent
    /\ before = [self |-> InitSelf, op |-> "new"]
    /\ fed = <<>>
    /\ emitted = <<>>
    /\ quiet = "init"

\* Decoder.start, called once by the framework before any decode
Start ==
    /\ out_ann = None
    /\ \E hrx \in HeaderRxOptions, htx \in HeaderTxOptions, ps \in PrintSecOptions :
          SetSelf([Self EXCEPT !.out_ann = 0, !.header = <<hrx, htx>>, !.print_sec = ps])
    /\ puts' = <<>>
    /\ op' = "start"
    /\ before' = [self |-> Self, op |-> op]
    /\ UNCHANGED <<raised, now, inp, fed, emitted, quiet>>

\* Decoder.reset called on the object
Reset ==
    /\ SetSelf(reset(Self))
    /\ puts' = <<>>
    /\ op' = "reset"
    /\ before' = [self |-> Self, op |-> op]
    /\ fed' = <<>>
    /\ emitted' = <<>>
    /\ UNCHANGED <<raised, now, inp, quiet>>

\* Decoder.decode without the test of line 211: every event goes to handle_byte
decode_AnyType(ptype, d, byte) ==
    LET ss == now
        es == now + 1
        ev == [ptype |-> ptype, ss |-> ss, es |-> es, byte |-> byte, rxtx |-> d]
        r == handle_byte(Self, ss, es, byte, d)
        fresh == buf_pos = 0 \/ rxtx # d
    IN  /\ out_ann # None
        /\ ~raised
        /\ now' = now + 1
        /\ op' = "decode"
        /\ inp' = ev
        /\ before' = [self |-> Self, op |-> op]
        /\ SetSelf(r.self)
        /\ puts' = r.puts
        /\ raised' = r.raised
        /\ fed' = IF fresh THEN <<ev>> ELSE Append(fed, ev)
        /\ emitted' = IF fresh THEN r.puts ELSE emitted \o r.puts
        /\ quiet' = IF r.puts # <<>> /\ r.puts[1].ann = Ann_WARN THEN "warned"
                    ELSE IF byte = header[d + 1] THEN "no"
                    ELSE quiet

\* Decoder.decode(ss, es, [ptype, d, (byte, bits)])
decode(ptype, d, byte) ==
    LET ss == now
        es == now + 1
        ev == [ptype |-> ptype, ss |-> ss, es |-> es, byte |-> byte, rxtx |-> d]
    IN  /\ out_ann # None
        /\ ~raised
        /\ now' = now + 1
        /\ op' = "decode"
        /\ inp' = ev
        /\ before' = [self |-> Self, op |-> op]
        /\ IF ptype = "DATA"
           THEN LET r == handle_byte(Self, ss, es, byte, d)
                    fresh == buf_pos = 0 \/ rxtx # d
                IN  /\ SetSelf(r.self)
                    /\ puts' = r.puts
                    /\ raised' = r.raised
                    /\ fed' = IF fresh THEN <<ev>> ELSE Append(fed, ev)
                    /\ emitted' = IF fresh THEN r.puts ELSE emitted \o r.puts
                    /\ quiet' = IF r.puts # <<>> /\ r.puts[1].ann = Ann_WARN THEN "warned"
                                ELSE IF byte = header[d + 1] THEN "no"
                                ELSE quiet
           ELSE /\ puts' = <<>>
                /\ UNCHANGED <<decoder, raised, fed, emitted, quiet>>

DecodeData == \E d \in Directions, byte \in Bytes : now < MaxEvents /\ decode("DATA", d, byte)

DecodeOther == \E d \in Directions, t \in PTypes \ {"DATA"} : now < MaxEvents /\ decode(t, d, 0)

Next == Start \/ Reset \/ DecodeData \/ DecodeOther

Spec == Init /\ [][Next]_vars

----------------------------------------------------------------------------
(* A second environment: whole frames, long ones included.  The byte offered *)
(* depends on how far the frame being sent has come: a header value, a size  *)
(* byte, a type byte, payload bytes that count up with their position, and   *)
(* a last byte that closes the XOR to 0 or misses it by one bit.             *)

\* the bytes sent since the frame began (none while the assembler is idle)
Sent == IF buf_pos = 0 THEN <<>> ELSE [i \in 1..Len(fed) |-> fed[i].byte]

LongBytes ==
    LET k == Len(Sent) + 1
    IN  IF k = 1 THEN {header_rx_default, header_tx_default}
        ELSE IF k = 2 THEN LongSizes
        ELSE IF k = 3 THEN LongTypes
        ELSE IF k < PACKETSIZE_MIN + Sent[2] THEN {k}
        ELSE LET c == XorSeq(Sent) IN {c, IF c % 2 = 0 THEN c + 1 ELSE c - 1}

DecodeLong ==
    \E d \in Directions, byte \in LongBytes :
        /\ buf_pos > 0 \/ now < MaxLongStart
        /\ decode("DATA", d, byte)

NextLong == Start \/ DecodeLong

SpecLong == Init /\ [][NextLong]_vars

----------------------------------------------------------------------------
(* Vocabulary of the properties *)

Idle == buf_pos = 0 /\ accum_bytes = <<>>

BytesOf(f) == [i \in 1..Len(f) |-> f[i].byte]

\* f is a whole frame of one direction: header, size byte S <= 60, type,
\* S payload bytes and one last byte
IsFrame(f) ==
    /\ Len(f) >= PACKETSIZE_MIN
    /\ \A i \in 1..Len(f) : f[i].rxtx = f[1].rxtx
    /\ f[1].byte = header[f[1].rxtx + 1]
    /\ f[2].byte <= PACKETSIZE_MAX - PACKETSIZE_MIN
    /\ Len(f) = PACKETSIZE_MIN + f[2].byte

ValidPacket(f) == IsFrame(f) /\ XorSeq(BytesOf(f)) = 0

AnnsOf(e) == [i \in 1..Len(e) |-> e[i].ann]

IsPacketAnn(a) == a \in {Ann_PACKET_RX, Ann_PACKET_TX}
IsDataAnn(a) == a \in {Ann_DATA_RX, Ann_DATA_TX}
IsTypeAnn(a) == a \in {Ann_ANSWER, Ann_COMMAND}

Where(e, a) == {i \in 1..Len(e) : e[i].ann = a}
PacketsIn(e) == {i \in 1..Len(e) : IsPacketAnn(e[i].ann)}

HexValue(c) == (CHOOSE i \in 1..16 : HexDigits[i] = c) - 1

\* reads "9D 00 01" back into <<157, 0, 1>>
ParseHex(cs) ==
    [k \in 1..((Len(cs) + 1) \div 3) |->
        16 * HexValue(cs[3 * k - 2]) + HexValue(cs[3 * k - 1])]

\* the bytes listed in the first label of a Data or Packet annotation, after
\* the optional 9-character time prefix and the two words of the title
ListedBytes(ev) ==
    LET skip == (IF print_sec # 0 THEN 9 ELSE 0) + 2
    IN  ParseHex(SubSeq(ev.labels[1], skip + 1, Len(ev.labels[1])))

----------------------------------------------------------------------------
\* C1: every valid packet (header of its direction, size byte S <= 60, type,
\* S payload bytes, a last byte bringing the XOR of all bytes to 0) fed in one
\* direction from the point where the assembler looks for a header yields
\* exactly one Packet annotation, the last put() of the run; it spans from the
\* header byte's start to the last byte's end, carries the direction's class
\* and lists exactly the bytes fed, in order.
C1_ValidPacketEmitted ==
    ValidPacket(fed) =>
        /\ Cardinality(PacketsIn(emitted)) = 1
        /\ LET p == emitted[Len(emitted)]
           IN  /\ p.ann = (IF fed[1].rxtx = TX THEN Ann_PACKET_TX ELSE Ann_PACKET_RX)
               /\ p.ss = fed[1].ss
               /\ p.es = fed[Len(fed)].es
               /\ ListedBytes(p) = BytesOf(fed)

\* the minimal packet 9D 00 01 9C, inbound, has been fed and annotated
C1_Witness ==
    /\ BytesOf(fed) = <<157, 0, 1, 156>>
    /\ fed[1].rxtx = RX
    /\ AnnsOf(emitted) = <<Ann_HEADER, Ann_DATASIZE, Ann_ANSWER, Ann_CHECKSUM, Ann_PACKET_RX>>
    /\ ListedBytes(emitted[5]) = <<157, 0, 1, 156>>

\* a valid packet of the largest size, 64 bytes, has been fed and annotated
C1_WitnessLargest ==
    /\ ValidPacket(fed)
    /\ Len(fed) = PACKETSIZE_MAX
    /\ PacketsIn(emitted) # {}

----------------------------------------------------------------------------
\* the last call was handle_byte on a byte event
ByteCall == op = "decode" /\ inp.ptype = "DATA"

\* the last call was handle_byte on a byte of the other direction, arriving
\* while a candidate was in progress
Interrupted ==
    /\ ByteCall
    /\ before.self.buf_pos > 0
    /\ before.self.rxtx # inp.rxtx

\* the byte of the last call equals the configured header of its direction
InpIsHeader == inp.byte = header[inp.rxtx + 1]

\* the object holds a candidate that consists of the byte of the last call only
StartedByInp ==
    /\ buf_pos = BufPos_HEADER
    /\ rxtx = inp.rxtx
    /\ accum_bytes = <<inp.byte>>
    /\ checksum = inp.byte
    /\ packet_ss = inp.ss
    /\ packet_size = None
    /\ data_ss = None
    /\ AnnsOf(puts) = <<Ann_HEADER>>
    /\ puts[1].ss = inp.ss
    /\ puts[1].es = inp.es

\* every field that reset() sets has the value reset() gives it
IsResetState(s) ==
    /\ s.buf_pos = 0
    /\ s.accum_bytes = <<>>
    /\ s.checksum = 0
    /\ s.rxtx = 0
    /\ s.packet_size = None
    /\ s.packet_ss = None
    /\ s.packet_es = None
    /\ s.data_ss = None

\* C2: as long as no byte fed has been equal to the configured header of its
\* own direction, no call has emitted anything and the assembler is idle
\* (position 0, empty buffer) after every event.
C2_NoHeaderNoEvents ==
    quiet = "init" => (puts = <<>> /\ emitted = <<>> /\ Idle)

\* three or more events were fed, none of them a header, bytes among them
C2_Witness ==
    /\ quiet = "init"
    /\ now >= 3
    /\ ByteCall
    /\ inp.byte \in {header[RX + 1], header[TX + 1]}

\* C3: a byte of the opposite direction arriving while position > 0 discards
\* the candidate without a Warning, and is then examined as a possible header:
\* if it equals the header of its own direction it starts a new candidate
\* (Header annotation, position 1, locked to its direction), otherwise the
\* assembler is idle and nothing is emitted.
C3_InterruptThenHeaderSearch ==
    Interrupted =>
        /\ Where(puts, Ann_WARN) = {}
        /\ IF InpIsHeader THEN StartedByInp ELSE (Idle /\ puts = <<>>)

\* a header byte of the other direction interrupted a candidate and started one
C3_Witness ==
    /\ Interrupted
    /\ InpIsHeader
    /\ buf_pos = BufPos_HEADER
    /\ before.self.buf_pos >= BufPos_DATA_SIZE

\* C4 as claimed: after a byte of another direction interrupts a candidate the
\* assembler is idle and no Header annotation was emitted for that byte,
\* whatever its value.
C4_AsClaimed ==
    Interrupted => (Idle /\ Where(puts, Ann_HEADER) = {})

\* C4 as amended: the interrupted candidate is dropped completely (every field
\* set by reset() is cleared before the byte is looked at), and the byte is
\* kept out of the old candidate; the assembler is idle afterwards with no
\* Header annotation exactly when the byte differs from the header of its own
\* direction, and holds a new one-byte candidate otherwise.
C4_InterruptDropsCandidate ==
    Interrupted =>
        /\ (~InpIsHeader) <=> (IsResetState(Self) /\ Where(puts, Ann_HEADER) = {})
        /\ InpIsHeader <=> (buf_pos = BufPos_HEADER /\ AnnsOf(puts) = <<Ann_HEADER>>)
        /\ Len(accum_bytes) <= 1
        /\ packet_size = None /\ data_ss = None /\ packet_es = None
        /\ checksum = XorSeq(accum_bytes)

\* a byte that is no header interrupted a candidate of three or more bytes
C4_Witness ==
    /\ Interrupted
    /\ ~InpIsHeader
    /\ before.self.buf_pos >= BufPos_DATA_TYPE
    /\ Idle

\* the last call accepted its byte as the size byte of a candidate
SizeCall ==
    /\ ByteCall
    /\ before.self.buf_pos = BufPos_HEADER
    /\ before.self.rxtx = inp.rxtx

\* C5: a size byte S with 4 + S > 64 yields exactly one annotation, a Warning
\* over that byte (no Size annotation), and leaves the assembler idle; from
\* then on nothing is emitted until a byte equal to the configured header of
\* its own direction arrives.
C5_OversizeWarnsThenSilent ==
    /\ (SizeCall /\ PACKETSIZE_MIN + inp.byte > PACKETSIZE_MAX) =>
           /\ AnnsOf(puts) = <<Ann_WARN>>
           /\ puts[1].ss = inp.ss /\ puts[1].es = inp.es
           /\ quiet = "warned"
           /\ Idle
    /\ quiet = "warned" =>
           /\ Idle
           /\ puts = <<>> \/ (SizeCall /\ AnnsOf(puts) = <<Ann_WARN>>)

\* after a Warning, a later byte that is no header was consumed silently
C5_Witness ==
    /\ quiet = "warned"
    /\ ByteCall
    /\ ~SizeCall
    /\ puts = <<>>

\* f is a whole frame whose last byte leaves the XOR of all bytes non-zero
BadFrame(f) == IsFrame(f) /\ XorSeq(BytesOf(f)) # 0

TypeAnnOf(d) == IF d = TX THEN Ann_COMMAND ELSE Ann_ANSWER
DataAnnOf(d) == IF d = TX THEN Ann_DATA_TX ELSE Ann_DATA_RX

\* C6 as claimed: for every frame (0 <= S <= 60) closed by a byte that leaves
\* the XOR non-zero, Header, Size, Type and Data annotations are all emitted,
\* no Packet annotation is, and the assembler is idle afterwards.
C6_AsClaimed ==
    BadFrame(fed) =>
        /\ Where(emitted, Ann_HEADER) # {}
        /\ Where(emitted, Ann_DATASIZE) # {}
        /\ Where(emitted, TypeAnnOf(fed[1].rxtx)) # {}
        /\ Where(emitted, DataAnnOf(fed[1].rxtx)) # {}
        /\ PacketsIn(emitted) = {}
        /\ Idle

\* C6 as amended: such a frame yields the annotations Header, Size, Type, then
\* Data when S >= 1 (none when S = 0), then Checksum, and nothing else: no
\* Packet annotation; the assembler is idle afterwards.
C6_BadChecksumNoPacket ==
    BadFrame(fed) =>
        /\ AnnsOf(emitted) =
              <<Ann_HEADER, Ann_DATASIZE, TypeAnnOf(fed[1].rxtx)>>
              \o (IF fed[2].byte >= 1 THEN <<DataAnnOf(fed[1].rxtx)>> ELSE <<>>)
              \o <<Ann_CHECKSUM>>
        /\ Idle

\* a frame with payload and a wrong last byte has been fed
C6_Witness ==
    /\ BadFrame(fed)
    /\ fed[2].byte >= 1
    /\ Where(emitted, DataAnnOf(fed[1].rxtx)) # {}
    /\ Idle

\* C7: no call raises; a candidate ends (position back to 0) on an oversized
\* size byte and on the byte that brings position to declared_size, and is
\* dropped by a byte of the other direction; it never outlives its 64th byte,
\* so from any state it is over after at most 63 further byte events; and a
\* byte equal to the header of its own direction that arrives while the
\* assembler is idle starts a new candidate with a Header annotation.
C7_AlwaysResynchronizes ==
    /\ ~raised
    /\ Len(fed) <= PACKETSIZE_MAX
    /\ buf_pos > 0 => (Len(fed) = buf_pos /\ buf_pos <= PACKETSIZE_MAX - 1)
    /\ (SizeCall /\ PACKETSIZE_MIN + inp.byte > PACKETSIZE_MAX) => Idle
    /\ (ByteCall /\ before.self.buf_pos >= BufPos_DATA_SIZE
          /\ before.self.rxtx = inp.rxtx
          /\ before.self.buf_pos + 1 = before.self.packet_size) => Idle
    /\ Interrupted => buf_pos <= BufPos_HEADER
    /\ (ByteCall /\ before.self.buf_pos = 0 /\ InpIsHeader) => StartedByInp

\* a candidate was ended by exactly its 64th byte
C7_Witness ==
    /\ Idle
    /\ Len(fed) = PACKETSIZE_MAX
    /\ before.self.buf_pos = PACKETSIZE_MAX - 1

\* C8: reset leaves position 0, an empty buffer, checksum 0, declared size and
\* timestamps unset, whatever the state before, and emits nothing; applied to
\* an assembler that is already idle, or right after another reset, it changes
\* nothing.
C8_ResetIdempotent ==
    op = "reset" =>
        /\ IsResetState(Self)
        /\ puts = <<>>
        /\ header = before.self.header
        /\ print_sec = before.self.print_sec
        /\ out_ann = before.self.out_ann
        /\ before.self.buf_pos = 0 => Self = before.self
        /\ before.op = "reset" => Self = before.self

\* reset was applied twice in a row after bytes had been accepted
C8_Witness ==
    /\ op = "reset"
    /\ before.op = "reset"
    /\ now >= 3

\* C9: a call emits a Packet annotation exactly when it accepts a byte that
\* brings position to declared_size with the XOR of the whole buffer at 0;
\* a Packet annotation directly follows the Checksum annotation of the same
\* byte, and after a Checksum annotation the assembler is idle whether or not
\* a Packet annotation followed.
C9_PacketIffChecksumZero ==
    LET b == before.self
        closes == /\ ByteCall
                  /\ b.buf_pos > 0
                  /\ b.rxtx = inp.rxtx
                  /\ b.packet_size # None
                  /\ b.buf_pos + 1 = b.packet_size
    IN  /\ (PacketsIn(puts) # {}) <=>
              (closes /\ XorSeq(Append(b.accum_bytes, inp.byte)) = 0)
        /\ \A i \in PacketsIn(puts) :
              /\ i = Len(puts)
              /\ i > 1
              /\ puts[i - 1].ann = Ann_CHECKSUM
              /\ puts[i - 1].ss = inp.ss
              /\ puts[i - 1].es = inp.es
        /\ (Where(puts, Ann_CHECKSUM) # {}) <=> closes
        /\ Where(puts, Ann_CHECKSUM) # {} => Idle

\* a checksum byte closed a candidate with payload and a Packet followed
C9_Witness ==
    /\ ByteCall
    /\ before.self.buf_pos > BufPos_DATA_TYPE
    /\ AnnsOf(puts) = <<Ann_CHECKSUM, Ann_PACKET_TX>>
    /\ Idle

\* C10: in every state between calls the number of bytes in the buffer equals
\* position (both 0 when idle).
C10_BufferLengthIsPosition ==
    Len(accum_bytes) = buf_pos

\* a candidate of four bytes is in progress
C10_Witness ==
    /\ buf_pos = BufPos_DATA_START
    /\ Len(accum_bytes) = BufPos_DATA_START

----------------------------------------------------------------------------
\* C11: after every call the running checksum equals the XOR of exactly the
\* bytes currently in the buffer, 0 for the empty buffer.
C11_ChecksumIsXorOfBuffer ==
    checksum = XorSeq(accum_bytes)

\* three bytes of a candidate are buffered and their XOR is not 0
C11_Witness ==
    /\ ByteCall
    /\ buf_pos = BufPos_DATA_TYPE
    /\ accum_bytes = <<217, 1, 2>>
    /\ checksum = 218

\* C12: after every call the declared size is either unset or lies between
\* 4 and 64, it is set exactly when position is at least 2, and position
\* never exceeds it.
C12_DeclaredSizeInRange ==
    /\ packet_size = None \/ (PACKETSIZE_MIN <= packet_size /\ packet_size <= PACKETSIZE_MAX)
    /\ (packet_size # None) <=> (buf_pos >= BufPos_DATA_SIZE)
    /\ packet_size # None => buf_pos <= packet_size

\* the largest size is declared and all bytes but the last are buffered
C12_Witness ==
    /\ packet_size = PACKETSIZE_MAX
    /\ buf_pos = PACKETSIZE_MAX - 1

\* a header has been matched and its candidate is still open: the bytes fed
\* since the assembler last looked for a header begin with the header of their
\* direction, and neither an oversize size byte nor the last byte of the
\* declared size has been fed
HeaderMatched ==
    /\ Len(fed) >= 1
    /\ fed[1].byte = header[fed[1].rxtx + 1]
    /\ Len(fed) >= 2 =>
          /\ PACKETSIZE_MIN + fed[2].byte <= PACKETSIZE_MAX
          /\ Len(fed) < PACKETSIZE_MIN + fed[2].byte

\* C13: position is 0 exactly when no header is currently matched, and
\* whenever position is 0 the buffer is empty, the checksum is 0 and the
\* declared size, the packet start time and the data start time are unset.
C13_IdleIffNoHeaderMatched ==
    /\ (buf_pos = 0) <=> ~HeaderMatched
    /\ buf_pos = 0 =>
          /\ accum_bytes = <<>>
          /\ checksum = 0
          /\ packet_size = None
          /\ packet_ss = None
          /\ data_ss = None

\* the byte just handled ended a candidate whose data start time was set
C13_Witness ==
    /\ ByteCall
    /\ before.self.buf_pos >= BufPos_DATA_START
    /\ before.self.data_ss # None
    /\ before.self.rxtx = inp.rxtx
    /\ buf_pos = 0
    /\ ~HeaderMatched

\* C14: the buffer never holds more than 64 bytes, whatever is fed, and the
\* bounded deque never drops a byte: no byte is appended to a buffer that
\* already holds 64, so an open candidate's buffer is exactly the bytes fed
\* to it.
C14_BufferNeverOverflows ==
    /\ Len(accum_bytes) <= PACKETSIZE_MAX
    /\ buf_pos > 0 => accum_bytes = BytesOf(fed)
    /\ ByteCall =>
          LET b == before.self
          IN  /\ (b.buf_pos > 0 /\ b.rxtx = inp.rxtx) => Len(b.accum_bytes) < PACKETSIZE_MAX
              /\ buf_pos = BufPos_HEADER => accum_bytes = <<inp.byte>>

\* the 64th byte of a candidate was appended to a buffer holding 63
C14_Witness ==
    /\ ByteCall
    /\ before.self.buf_pos = PACKETSIZE_MAX - 1
    /\ Len(before.self.accum_bytes) = PACKETSIZE_MAX - 1
    /\ before.self.rxtx = inp.rxtx
    /\ Idle

\* the bytes fed since the last header search begin with a header of their
\* direction and a size byte that declares at most 64
Accepted ==
    /\ Len(fed) >= BufPos_DATA_SIZE
    /\ fed[1].byte = header[fed[1].rxtx + 1]
    /\ PACKETSIZE_MIN + fed[2].byte <= PACKETSIZE_MAX

DataIn(e) == {i \in 1..Len(e) : IsDataAnn(e[i].ann)}

\* C15: a candidate with size byte S >= 1 gets exactly one Data annotation,
\* put on the byte that brings position to declared size - 1; it spans from
\* the start of the 4th byte to the end of that byte and lists exactly the S
\* payload bytes, buffer positions 4 .. declared size - 1.  With S = 0 there
\* is no Data annotation and the 4th byte is taken as the checksum byte.
C15_OneDataEventPerPayload ==
    Accepted =>
        LET S == fed[2].byte
            n == Len(fed)
            last == PACKETSIZE_MIN + S - 1
        IN  /\ (S >= 1 /\ n >= last) =>
                  /\ Cardinality(DataIn(emitted)) = 1
                  /\ \A i \in DataIn(emitted) :
                        /\ emitted[i].ann = DataAnnOf(fed[1].rxtx)
                        /\ emitted[i].ss = fed[BufPos_DATA_START].ss
                        /\ emitted[i].es = fed[last].es
                        /\ ListedBytes(emitted[i]) =
                              SubSeq(BytesOf(fed), BufPos_DATA_START, last)
            /\ (S = 0 \/ n < last) => DataIn(emitted) = {}
            /\ (S >= 1 /\ n = last /\ ByteCall /\ inp = fed[n]) =>
                  /\ Cardinality(DataIn(puts)) = 1
                  /\ buf_pos = packet_size - 1
            /\ (S = 0 /\ n = BufPos_DATA_START /\ ByteCall /\ inp = fed[n]) =>
                  /\ puts # <<>>
                  /\ puts[1].ann = Ann_CHECKSUM
                  /\ puts[1].ss = inp.ss
                  /\ Idle

\* the 60th payload byte of the longest candidate has brought its Data
\* annotation
C15_Witness ==
    /\ Accepted
    /\ fed[2].byte = PACKETSIZE_MAX - PACKETSIZE_MIN
    /\ Len(fed) = PACKETSIZE_MAX - 1
    /\ DataIn(puts) # {}
    /\ Len(ListedBytes(puts[1])) = PACKETSIZE_MAX - PACKETSIZE_MIN

\* a candidate with an empty payload has been closed by its 4th byte
C15_WitnessEmpty ==
    /\ Accepted
    /\ fed[2].byte = 0
    /\ Len(fed) = BufPos_DATA_START
    /\ ByteCall
    /\ puts # <<>>
    /\ puts[1].ann = Ann_CHECKSUM

\* the annotation classes a run of fed bytes calls for, in the order Header,
\* Size (or Warning), Type, Data, Checksum, Packet, as far as the run has come
ExpectedAnns ==
    LET n == Len(fed)
    IN  IF n = 0 \/ fed[1].byte # header[fed[1].rxtx + 1] THEN <<>>
        ELSE IF n < BufPos_DATA_SIZE THEN <<Ann_HEADER>>
        ELSE IF PACKETSIZE_MIN + fed[2].byte > PACKETSIZE_MAX THEN <<Ann_HEADER, Ann_WARN>>
        ELSE LET S == fed[2].byte
                 d == fed[1].rxtx
             IN  <<Ann_HEADER, Ann_DATASIZE>>
                 \o (IF n >= BufPos_DATA_TYPE THEN <<TypeAnnOf(d)>> ELSE <<>>)
                 \o (IF S >= 1 /\ n >= PACKETSIZE_MIN + S - 1 THEN <<DataAnnOf(d)>> ELSE <<>>)
                 \o (IF n >= PACKETSIZE_MIN + S THEN <<Ann_CHECKSUM>> ELSE <<>>)
                 \o (IF n >= PACKETSIZE_MIN + S /\ XorSeq(BytesOf(fed)) = 0
                     THEN <<IF d = TX THEN Ann_PACKET_TX ELSE Ann_PACKET_RX>> ELSE <<>>)

\* the place in the run of the byte that completes an annotation of class a
TriggerOf(a) ==
    IF a = Ann_HEADER THEN BufPos_HEADER
    ELSE IF a \in {Ann_DATASIZE, Ann_WARN} THEN BufPos_DATA_SIZE
    ELSE IF IsTypeAnn(a) THEN BufPos_DATA_TYPE
    ELSE IF IsDataAnn(a) THEN PACKETSIZE_MIN + fed[2].byte - 1
    ELSE PACKETSIZE_MIN + fed[2].byte

\* C16: the annotations of one candidate come in the order Header, Size,
\* Type, Data (only with a payload), Checksum, Packet (only when the XOR is
\* 0), each put in the call of the byte that completes it and ending at that
\* byte's end; a candidate cut short keeps the annotations already put: what
\* has been put for a run is always the part of that order the run has
\* reached, and the last call's put()s are its tail.
C16_EventsInOrderAtTrigger ==
    /\ AnnsOf(emitted) = ExpectedAnns
    /\ \A i \in 1..Len(emitted) :
          /\ TriggerOf(emitted[i].ann) <= Len(fed)
          /\ emitted[i].es = fed[TriggerOf(emitted[i].ann)].es
    /\ (ByteCall /\ fed # <<>> /\ inp = fed[Len(fed)]) =>
          /\ Len(puts) <= Len(emitted)
          /\ puts = SubSeq(emitted, Len(emitted) - Len(puts) + 1, Len(emitted))
          /\ \A i \in 1..Len(emitted) :
                (emitted[i].es = inp.es) <=> (i > Len(emitted) - Len(puts))

\* a whole outbound candidate with a payload has gone through, Packet included
C16_Witness ==
    /\ ByteCall
    /\ Len(fed) > PACKETSIZE_MIN
    /\ AnnsOf(emitted) = <<Ann_HEADER, Ann_DATASIZE, Ann_COMMAND, Ann_DATA_TX,
                           Ann_CHECKSUM, Ann_PACKET_TX>>
    /\ AnnsOf(puts) = <<Ann_CHECKSUM, Ann_PACKET_TX>>

\* a candidate cut short by an oversize size byte keeps its Header
C16_WitnessCutShort ==
    /\ ByteCall
    /\ AnnsOf(emitted) = <<Ann_HEADER, Ann_WARN>>
    /\ AnnsOf(puts) = <<Ann_WARN>>
    /\ Idle

\* the last call was handle_byte on the byte that brought a candidate to its
\* declared size
ClosingCall ==
    /\ ByteCall
    /\ before.self.buf_pos >= BufPos_DATA_TYPE
    /\ before.self.rxtx = inp.rxtx
    /\ before.self.buf_pos + 1 = before.self.packet_size

\* C17: a Warning is put only when the size byte at position 2 declares more
\* than 64; neither a checksum mismatch nor a direction change puts one, and
\* a checksum failure shows only as a Checksum annotation with no Packet
\* after it.
C17_WarningOnlyForOversize ==
    /\ (Where(puts, Ann_WARN) # {}) <=>
          (SizeCall /\ PACKETSIZE_MIN + inp.byte > PACKETSIZE_MAX)
    /\ Interrupted => (puts = <<>> \/ AnnsOf(puts) = <<Ann_HEADER>>)
    /\ (ClosingCall /\ XorSeq(Append(before.self.accum_bytes, inp.byte)) # 0) =>
          /\ AnnsOf(puts) = <<Ann_CHECKSUM>>
          /\ puts[1].ss = inp.ss
          /\ puts[1].es = inp.es
          /\ Idle

\* a candidate with a payload failed its checksum: a lone Checksum annotation
C17_Witness ==
    /\ ClosingCall
    /\ before.self.buf_pos > BufPos_DATA_START
    /\ XorSeq(Append(before.self.accum_bytes, inp.byte)) # 0
    /\ AnnsOf(puts) = <<Ann_CHECKSUM>>
    /\ Where(emitted, Ann_WARN) = {}

\* a direction change dropped a candidate without any annotation
C17_WitnessInterrupted ==
    /\ Interrupted
    /\ before.self.buf_pos >= BufPos_DATA_TYPE
    /\ puts = <<>>

\* C18: a Header annotation is put only for a byte the header search looks at
\* with position 0.  While position >= 1 a byte of the locked direction that
\* equals the header value is accumulated as a body byte and starts no new
\* candidate; when such a byte ends the candidate, as its checksum byte or as
\* an oversize size byte, it is not looked at again as a header.
C18_HeaderOnlyWhenIdle ==
    LET b == before.self
    IN  /\ Where(puts, Ann_HEADER) # {} =>
              /\ ByteCall
              /\ InpIsHeader
              /\ b.buf_pos = 0 \/ b.rxtx # inp.rxtx
              /\ StartedByInp
        /\ (ByteCall /\ InpIsHeader /\ b.buf_pos >= BufPos_HEADER /\ b.rxtx = inp.rxtx) =>
              /\ Where(puts, Ann_HEADER) = {}
              /\ \/ /\ buf_pos = b.buf_pos + 1
                    /\ accum_bytes = Append(b.accum_bytes, inp.byte)
                    /\ packet_ss = b.packet_ss
                    /\ rxtx = b.rxtx
                 \/ /\ Idle
                    /\ \/ ClosingCall
                       \/ SizeCall /\ PACKETSIZE_MIN + inp.byte > PACKETSIZE_MAX

\* a checksum byte equal to the header value closed a packet and started
\* nothing
C18_Witness ==
    /\ ClosingCall
    /\ InpIsHeader
    /\ PacketsIn(puts) # {}
    /\ Where(puts, Ann_HEADER) = {}
    /\ Idle

\* a byte equal to the header value was accumulated as the type byte
C18_WitnessBodyByte ==
    /\ ByteCall
    /\ InpIsHeader
    /\ before.self.buf_pos = BufPos_DATA_SIZE
    /\ before.self.rxtx = inp.rxtx
    /\ buf_pos = BufPos_DATA_TYPE
    /\ IsTypeAnn(puts[1].ann)

\* C19: decode hands an event to handle_byte only when its type is 'DATA';
\* for any other type the whole object is as it was before the call and
\* nothing is put, so such an event in the middle of a candidate does not
\* interrupt it.
C19_OnlyDataEventsHandled ==
    (op = "decode" /\ inp.ptype # "DATA") =>
        /\ Self = before.self
        /\ puts = <<>>
        /\ ~raised

\* an event of another type, tagged with the other direction, arrived in the
\* middle of a candidate and left it in place
C19_Witness ==
    /\ op = "decode"
    /\ inp.ptype # "DATA"
    /\ buf_pos >= BufPos_DATA_TYPE
    /\ inp.rxtx # rxtx
    /\ Len(fed) = buf_pos
    /\ Self = before.self

\* C20: handle_byte never reads an unset field.  No call raises; whenever a
\* call reaches the comparisons of lines 183 and 192 the declared size is the
\* one set by the size byte of the current candidate; the data start time is
\* the start of the current candidate's 4th byte whenever a Data annotation is
\* put, and the packet start time is the start of its header byte whenever a
\* Packet annotation is put.
C20_NoUnsetFieldRead ==
    /\ ~raised
    /\ (ByteCall /\ before.self.buf_pos >= BufPos_DATA_SIZE
                 /\ before.self.rxtx = inp.rxtx) => before.self.packet_size # None
    /\ buf_pos >= BufPos_HEADER =>
          /\ Len(fed) = buf_pos
          /\ packet_ss = fed[BufPos_HEADER].ss
    /\ buf_pos >= BufPos_DATA_SIZE => packet_size = PACKETSIZE_MIN + fed[BufPos_DATA_SIZE].byte
    /\ buf_pos >= BufPos_DATA_START => data_ss = fed[BufPos_DATA_START].ss
    /\ \A i \in 1..Len(emitted) :
          /\ emitted[i].ss # None
          /\ emitted[i].es # None
          /\ IsDataAnn(emitted[i].ann) =>
                Len(fed) >= BufPos_DATA_START /\ emitted[i].ss = fed[BufPos_DATA_START].ss
          /\ IsPacketAnn(emitted[i].ann) => emitted[i].ss = fed[BufPos_HEADER].ss

\* the 4th byte of a candidate with a one-byte payload set the data start
\* time and brought the Data annotation in the same call
C20_Witness ==
    /\ ByteCall
    /\ before.self.buf_pos = BufPos_DATA_TYPE
    /\ before.self.data_ss = None
    /\ before.self.rxtx = inp.rxtx
    /\ buf_pos = BufPos_DATA_START
    /\ data_ss = inp.ss
    /\ IsDataAnn(puts[1].ann)
    /\ puts[1].ss = inp.ss

====
